---- MODULE Spec2Model ----
(***************************************************************************)
(* A model of the Medoro JavaScript client: the command classes, the       *)
(* signing orchestrator (createSignedUrl), the dispatcher (send), the      *)
(* response classifier (parseJsonResponse) of MedoroDataplaneClient, and   *)
(* the putObject / getObject / deleteObject methods of MedoroClient.       *)
(*                                                                         *)
(* JavaScript strings that are converted (JSON text, base64 text, query    *)
(* values) are sequences of character codes; strings that are only         *)
(* compared or concatenated (error types, messages, parameter names) are   *)
(* TLA+ strings.  JavaScript values that are serialised are tagged         *)
(* records: [k |-> "undefined"], [k |-> "null"], [k |-> "num", ...],       *)
(* [k |-> "str", ...], [k |-> "arr", ...], [k |-> "obj", ...].             *)
(***************************************************************************)
EXTENDS Integers, Sequences, FiniteSets, TLC

(***************************************************************************)
(* Bounds of the model.                                                    *)
(***************************************************************************)
\* the second at which a call reads the clock
ClockSeconds == 1700000000

(***************************************************************************)
(* Program constants.                                                      *)
(***************************************************************************)
MinExpiresInSeconds == 10
MaxExpiresInSeconds == 604800
DefaultExpiresInSeconds == 60

(***************************************************************************)
(* Character codes of the string literals the program's values are built   *)
(* from.                                                                   *)
(***************************************************************************)
s_apiPutV1 == <<97, 112, 105, 80, 117, 116, 86, 49>>
s_conditions == <<99, 111, 110, 100, 105, 116, 105, 111, 110, 115>>
s_accessControl == <<97, 99, 99, 101, 115, 115, 67, 111, 110, 116, 114, 111, 108>>
s_content_length == <<99, 111, 110, 116, 101, 110, 116, 95, 108, 101, 110, 103, 116, 104>>
s_content_type == <<99, 111, 110, 116, 101, 110, 116, 95, 116, 121, 112, 101>>
s_lte == <<108, 116, 101>>
s_range == <<114, 97, 110, 103, 101>>
s_startsWith == <<115, 116, 97, 114, 116, 115, 87, 105, 116, 104>>
s_endsWith == <<101, 110, 100, 115, 87, 105, 116, 104>>
s_gte == <<103, 116, 101>>
s_oneOf == <<111, 110, 101, 79, 102>>
s_text_plain == <<116, 101, 120, 116, 47, 112, 108, 97, 105, 110>>
s_public == <<112, 117, 98, 108, 105, 99>>
s_private == <<112, 114, 105, 118, 97, 116, 101>>
s_public_read == <<112, 117, 98, 108, 105, 99, 45, 114, 101, 97, 100>>
s_evil == <<101, 118, 105, 108>>
s_I1 == <<73, 49>>
s_S1 == <<83, 49>>
s_S2 == <<83, 50>>
s_null == <<110, 117, 108, 108>>
s_true == <<116, 114, 117, 101>>
s_false == <<102, 97, 108, 115, 101>>
s_undefined == <<117, 110, 100, 101, 102, 105, 110, 101, 100>>
\* "caf" followed by U+00E9: a Latin-1 string outside ASCII
s_latin1 == <<99, 97, 102, 233>>
\* U+65E5 U+672C: a string outside Latin-1
s_wide == <<26085, 26412>>
\* a"b\c : a string whose JSON form needs escapes
s_quoted == <<97, 34, 98, 92, 99>>

(***************************************************************************)
(* JavaScript values.                                                      *)
(***************************************************************************)
Undefined == [k |-> "undefined"]
Null == [k |-> "null"]
Num(n) == [k |-> "num", fin |-> TRUE, n |-> n]
\* NaN, Infinity, -Infinity: numbers that are not finite
NonFinite == [k |-> "num", fin |-> FALSE, n |-> 0]
Str(s) == [k |-> "str", s |-> s]
Arr(items) == [k |-> "arr", items |-> items]
Obj(fields) == [k |-> "obj", fields |-> fields]
Field(name, v) == [name |-> name, v |-> v]
Bool(b) == [k |-> "bool", b |-> b]

(***************************************************************************)
(* JSON.stringify.  The result is [ok, undef, text]: ok = FALSE when it    *)
(* throws, undef = TRUE when it returns undefined, else text is the JSON   *)
(* text.                                                                   *)
(***************************************************************************)
RECURSIVE Digits(_)
Digits(n) == IF n < 10 THEN <<48 + n>> ELSE Digits(n \div 10) \o <<48 + (n % 10)>>

NumberToString(n) == IF n < 0 THEN <<45>> \o Digits(0 - n) ELSE Digits(n)

RECURSIVE QuoteBody(_)
QuoteBody(s) ==
    IF s = <<>> THEN <<>>
    ELSE (IF Head(s) = 34 \/ Head(s) = 92 THEN <<92, Head(s)>> ELSE <<Head(s)>>)
         \o QuoteBody(Tail(s))

Quote(s) == <<34>> \o QuoteBody(s) \o <<34>>

RECURSIVE SerializeJSON(_), SerializeFields(_, _), SerializeItems(_, _)
\* the JSON text of a value, or <<>> for a value JSON.stringify leaves out
SerializeJSON(v) ==
    CASE v.k = "undefined" -> <<>>
      [] v.k = "null" -> s_null
      [] v.k = "bool" -> IF v.b THEN s_true ELSE s_false
      [] v.k = "num" -> IF v.fin THEN NumberToString(v.n) ELSE s_null
      [] v.k = "str" -> Quote(v.s)
      [] v.k = "arr" -> <<91>> \o SerializeItems(v.items, TRUE) \o <<93>>
      [] v.k = "obj" -> <<123>> \o SerializeFields(v.fields, TRUE) \o <<125>>

\* members whose value is undefined are skipped
SerializeFields(fs, first) ==
    IF fs = <<>> THEN <<>>
    ELSE IF Head(fs).v.k = "undefined" THEN SerializeFields(Tail(fs), first)
    ELSE (IF first THEN <<>> ELSE <<44>>)
         \o Quote(Head(fs).name) \o <<58>> \o SerializeJSON(Head(fs).v)
         \o SerializeFields(Tail(fs), FALSE)

\* array elements that are undefined are written as null
SerializeItems(items, first) ==
    IF items = <<>> THEN <<>>
    ELSE (IF first THEN <<>> ELSE <<44>>)
         \o (IF Head(items).k = "undefined" THEN s_null ELSE SerializeJSON(Head(items)))
         \o SerializeItems(Tail(items), FALSE)

JSONStringify(v) ==
    IF v.k = "undefined" THEN [ok |-> TRUE, undef |-> TRUE, text |-> <<>>]
    ELSE [ok |-> TRUE, undef |-> FALSE, text |-> SerializeJSON(v)]

(***************************************************************************)
(* JSON.parse, for the grammar JSON.stringify writes (no white space):     *)
(* objects, arrays, strings with the escapes \" and \\, integers, null,    *)
(* true, false.                                                            *)
(* Each parser returns [ok, v, next]: next is the index after the value.   *)
(***************************************************************************)
ParseFail == [ok |-> FALSE, v |-> Null, next |-> 0]

IsDigit(c) == c >= 48 /\ c <= 57

RECURSIVE ParseDigits(_, _, _)
ParseDigits(s, i, acc) ==
    IF i <= Len(s) /\ IsDigit(s[i]) THEN ParseDigits(s, i + 1, acc * 10 + (s[i] - 48))
    ELSE [ok |-> TRUE, v |-> acc, next |-> i]

ParseNumber(s, i) ==
    LET neg == s[i] = 45
        j == IF neg THEN i + 1 ELSE i
    IN IF j > Len(s) \/ ~IsDigit(s[j]) THEN ParseFail
       ELSE LET d == ParseDigits(s, j, 0)
            IN [ok |-> TRUE, v |-> Num(IF neg THEN 0 - d.v ELSE d.v), next |-> d.next]

\* the characters of a string literal, from the character after the opening quote
RECURSIVE ParseStringBody(_, _, _)
ParseStringBody(s, i, acc) ==
    IF i > Len(s) THEN ParseFail
    ELSE IF s[i] = 34 THEN [ok |-> TRUE, v |-> acc, next |-> i + 1]
    ELSE IF s[i] = 92
         THEN IF i + 1 <= Len(s) /\ (s[i + 1] = 34 \/ s[i + 1] = 92)
              THEN ParseStringBody(s, i + 2, Append(acc, s[i + 1]))
              ELSE ParseFail
    ELSE ParseStringBody(s, i + 1, Append(acc, s[i]))

Matches(s, i, lit) ==
    /\ i + Len(lit) - 1 <= Len(s)
    /\ SubSeq(s, i, i + Len(lit) - 1) = lit

RECURSIVE ParseValue(_, _), ParseMembers(_, _, _), ParseElements(_, _, _)
ParseValue(s, i) ==
    IF i > Len(s) THEN ParseFail
    ELSE IF s[i] = 123 THEN
        IF i + 1 <= Len(s) /\ s[i + 1] = 125
        THEN [ok |-> TRUE, v |-> Obj(<<>>), next |-> i + 2]
        ELSE ParseMembers(s, i + 1, <<>>)
    ELSE IF s[i] = 91 THEN
        IF i + 1 <= Len(s) /\ s[i + 1] = 93
        THEN [ok |-> TRUE, v |-> Arr(<<>>), next |-> i + 2]
        ELSE ParseElements(s, i + 1, <<>>)
    ELSE IF s[i] = 34 THEN
        LET b == ParseStringBody(s, i + 1, <<>>)
        IN IF b.ok THEN [ok |-> TRUE, v |-> Str(b.v), next |-> b.next] ELSE ParseFail
    ELSE IF Matches(s, i, s_null) THEN [ok |-> TRUE, v |-> Null, next |-> i + 4]
    ELSE IF Matches(s, i, s_true) THEN [ok |-> TRUE, v |-> Bool(TRUE), next |-> i + 4]
    ELSE IF Matches(s, i, s_false) THEN [ok |-> TRUE, v |-> Bool(FALSE), next |-> i + 5]
    ELSE IF s[i] = 45 \/ IsDigit(s[i]) THEN ParseNumber(s, i)
    ELSE ParseFail

\* "name":value (,"name":value)* }
ParseMembers(s, i, acc) ==
    IF i > Len(s) \/ s[i] # 34 THEN ParseFail
    ELSE LET nm == ParseStringBody(s, i + 1, <<>>)
         IN IF ~nm.ok \/ nm.next > Len(s) \/ s[nm.next] # 58 THEN ParseFail
            ELSE LET val == ParseValue(s, nm.next + 1)
                 IN IF ~val.ok \/ val.next > Len(s) THEN ParseFail
                    ELSE LET acc2 == Append(acc, Field(nm.v, val.v))
                         IN IF s[val.next] = 125
                            THEN [ok |-> TRUE, v |-> Obj(acc2), next |-> val.next + 1]
                            ELSE IF s[val.next] = 44
                            THEN ParseMembers(s, val.next + 1, acc2)
                            ELSE ParseFail

\* value (,value)* ]
ParseElements(s, i, acc) ==
    LET val == ParseValue(s, i)
    IN IF ~val.ok \/ val.next > Len(s) THEN ParseFail
       ELSE LET acc2 == Append(acc, val.v)
            IN IF s[val.next] = 93
               THEN [ok |-> TRUE, v |-> Arr(acc2), next |-> val.next + 1]
               ELSE IF s[val.next] = 44
               THEN ParseElements(s, val.next + 1, acc2)
               ELSE ParseFail

\* [ok, v]: ok = FALSE when JSON.parse throws a SyntaxError
JSONParse(s) ==
    LET r == ParseValue(s, 1)
    IN IF r.ok /\ r.next = Len(s) + 1 THEN [ok |-> TRUE, v |-> r.v]
       ELSE [ok |-> FALSE, v |-> Null]

(***************************************************************************)
(* btoa and atob: base64 over strings of codes 0..255.                     *)
(***************************************************************************)
\* the character of a 6-bit value in the base64 alphabet
B64Char(x) ==
    IF x < 26 THEN 65 + x
    ELSE IF x < 52 THEN 97 + (x - 26)
    ELSE IF x < 62 THEN 48 + (x - 52)
    ELSE IF x = 62 THEN 43
    ELSE 47

\* the 6-bit value of a base64 character, -1 for any other character
B64Value(c) ==
    IF c >= 65 /\ c <= 90 THEN c - 65
    ELSE IF c >= 97 /\ c <= 122 THEN c - 97 + 26
    ELSE IF c >= 48 /\ c <= 57 THEN c - 48 + 52
    ELSE IF c = 43 THEN 62
    ELSE IF c = 47 THEN 63
    ELSE 0 - 1

RECURSIVE EncodeBase64(_)
EncodeBase64(b) ==
    IF Len(b) = 0 THEN <<>>
    ELSE IF Len(b) = 1 THEN
        <<B64Char(b[1] \div 4), B64Char((b[1] % 4) * 16), 61, 61>>
    ELSE IF Len(b) = 2 THEN
        <<B64Char(b[1] \div 4), B64Char((b[1] % 4) * 16 + b[2] \div 16),
          B64Char((b[2] % 16) * 4), 61>>
    ELSE <<B64Char(b[1] \div 4), B64Char((b[1] % 4) * 16 + b[2] \div 16),
           B64Char((b[2] % 16) * 4 + b[3] \div 64), B64Char(b[3] % 64)>>
         \o EncodeBase64(SubSeq(b, 4, Len(b)))

\* btoa throws InvalidCharacterError on a character above U+00FF
btoa(s) ==
    IF \E i \in 1..Len(s) : s[i] > 255 THEN [ok |-> FALSE, text |-> <<>>]
    ELSE [ok |-> TRUE, text |-> EncodeBase64(s)]

RECURSIVE DecodeBase64(_)
DecodeBase64(t) ==
    IF Len(t) = 0 THEN <<>>
    ELSE LET a == B64Value(t[1])
             b == B64Value(t[2])
             c == B64Value(t[3])
             d == B64Value(t[4])
         IN IF t[3] = 61 THEN <<a * 4 + b \div 16>>
            ELSE IF t[4] = 61 THEN <<a * 4 + b \div 16, (b % 16) * 16 + c \div 4>>
            ELSE <<a * 4 + b \div 16, (b % 16) * 16 + c \div 4, (c % 4) * 64 + d>>
                 \o DecodeBase64(SubSeq(t, 5, Len(t)))

atob(t) ==
    IF Len(t) % 4 # 0 \/ \E i \in 1..Len(t) : B64Value(t[i]) < 0 /\ t[i] # 61
    THEN [ok |-> FALSE, text |-> <<>>]
    ELSE [ok |-> TRUE, text |-> DecodeBase64(t)]

(***************************************************************************)
(* URL and URLSearchParams.  A URL is [scheme, host, path, query]; query   *)
(* is the list of (name, value) pairs of url.searchParams, in order.       *)
(***************************************************************************)
Pair(name, value) == [name |-> name, value |-> value]

NoUrl == [scheme |-> "", host |-> "", path |-> "", query |-> <<>>]

\* new URL(key, origin): [ok, url]; ok = FALSE when it throws TypeError.
\* The base is parsed first; an absolute key replaces scheme and host, a key
\* starting with // replaces the host, any other key is resolved as a path.
NewURL(key, origin) ==
    IF ~origin.valid \/ key.form = "invalid" THEN [ok |-> FALSE, url |-> NoUrl]
    ELSE [ok |-> TRUE,
          url |-> [scheme |-> IF key.form = "absolute" THEN key.scheme ELSE origin.scheme,
                   host |-> IF key.form \in {"absolute", "schemeRelative"}
                            THEN key.host ELSE origin.host,
                   path |-> key.path,
                   query |-> key.query]]

\* new URL(url): a copy with the same components
CopyURL(u) == [scheme |-> u.scheme, host |-> u.host, path |-> u.path, query |-> u.query]

RemoveName(q, name) == SelectSeq(q, LAMBDA p : p.name # name)

RECURSIVE SetFirst(_, _, _)
\* sets the first pair called name to value and removes the later ones
SetFirst(q, name, value) ==
    IF q = <<>> THEN <<>>
    ELSE IF Head(q).name = name THEN <<Pair(name, value)>> \o RemoveName(Tail(q), name)
    ELSE <<Head(q)>> \o SetFirst(Tail(q), name, value)

HasParam(q, name) == \E i \in 1..Len(q) : q[i].name = name

\* url.searchParams.set(name, value)
SearchParamsSet(u, name, value) ==
    [u EXCEPT !.query = IF HasParam(u.query, name)
                        THEN SetFirst(u.query, name, value)
                        ELSE Append(u.query, Pair(name, value))]

\* url.searchParams.append(name, value)
SearchParamsAppend(u, name, value) ==
    [u EXCEPT !.query = Append(u.query, Pair(name, value))]

\* url.searchParams.getAll(name)
SearchParamsGetAll(u, name) ==
    LET hits == SelectSeq(u.query, LAMBDA p : p.name = name)
    IN [i \in 1..Len(hits) |-> hits[i].value]

(***************************************************************************)
(* Results (neverthrow's ok / err) and errors.  An async method that       *)
(* throws ends with tag "thrown": its promise rejects.                     *)
(***************************************************************************)
Error(type, message, code, context) ==
    [type |-> type, message |-> message, code |-> code, context |-> context,
     details |-> Undefined]

NoError == Error("", "", Undefined, Undefined)
NoValue == [k |-> "none"]
Pending == [tag |-> "pending", error |-> NoError, value |-> NoValue]
Ok(v) == [tag |-> "ok", error |-> NoError, value |-> v]
Err(e) == [tag |-> "err", error |-> e, value |-> NoValue]
Thrown(name, message) ==
    [tag |-> "thrown", error |-> Error(name, message, Undefined, Undefined),
     value |-> NoValue]

(***************************************************************************)
(* Inputs: client configurations, keys, policies, commands.                *)
(***************************************************************************)
BucketOrigin ==
    [text |-> "https://test-bucket.content-serve.com", valid |-> TRUE,
     scheme |-> "https", host |-> "test-bucket.content-serve.com"]
\* a configured origin that is no absolute URL
BadOrigin == [text |-> "test-bucket", valid |-> FALSE, scheme |-> "", host |-> ""]

PrivateKey == "Ed25519PrivateKey"
NullValue == "null"

Clients ==
    { [origin |-> BucketOrigin, privateKey |-> PrivateKey, keyId |-> "test-key-id"],
      [origin |-> BucketOrigin, privateKey |-> NullValue, keyId |-> NullValue],
      [origin |-> BucketOrigin, privateKey |-> NullValue, keyId |-> "test-key-id"],
      [origin |-> BadOrigin, privateKey |-> PrivateKey, keyId |-> "test-key-id"] }

Key(text, form, scheme, host, path, query) ==
    [text |-> text, form |-> form, scheme |-> scheme, host |-> host, path |-> path,
     query |-> query]

Keys ==
    { Key("test-key", "path", "", "", "/test-key", <<>>),
      Key("/k?x-medoro-policy=evil&x-medoro-signature=evil&x-medoro-policy=evil",
          "path", "", "", "/k",
          <<Pair("x-medoro-policy", s_evil), Pair("x-medoro-signature", s_evil),
            Pair("x-medoro-policy", s_evil)>>),
      Key("https://evil.example/k", "absolute", "https", "evil.example", "/k", <<>>),
      Key("//evil.example/k", "schemeRelative", "", "evil.example", "/k", <<>>),
      Key("https://[", "invalid", "", "", "", <<>>) }

Policy(conditions, accessControl) ==
    Obj(<<Field(s_apiPutV1,
                Obj(<<Field(s_conditions, Obj(conditions)),
                      Field(s_accessControl, accessControl)>>))>>)

\* { content_length: { lte: 100 }, content_type: 'text/plain' }, 'public'
TestPolicy ==
    Policy(<<Field(s_content_length, Obj(<<Field(s_lte, Num(100))>>)),
             Field(s_content_type, Str(s_text_plain))>>, Str(s_public))
\* { range: { range: [-1, 5] }, content_type: <Latin-1, with escapes> }, 'private'
RangePolicy ==
    Policy(<<Field(s_range, Obj(<<Field(s_range, Arr(<<Num(0 - 1), Num(5)>>))>>)),
             Field(s_content_type, Str(s_latin1 \o s_quoted))>>, Str(s_private))
\* a condition string outside Latin-1
WidePolicy == Policy(<<Field(s_content_type, Str(s_wide))>>, Str(s_public))
\* { content_length: { lte: Infinity } }
NonFinitePolicy ==
    Policy(<<Field(s_content_length, Obj(<<Field(s_lte, NonFinite)>>))>>, Str(s_public))
\* accessControl: 'public-read'
PublicReadPolicy ==
    Policy(<<Field(s_content_type, Str(s_text_plain))>>, Str(s_public_read))

Policies ==
    {TestPolicy, RangePolicy, WidePolicy, NonFinitePolicy, PublicReadPolicy, Undefined}

StringContent == [k |-> "string", type |-> ""]
BlobContent == [k |-> "Blob", type |-> "image/png"]
UntypedBlobContent == [k |-> "Blob", type |-> ""]
ArrayBufferContent == [k |-> "ArrayBuffer", type |-> ""]
NoContent == [k |-> "undefined", type |-> ""]

\* new Headers(): no header
EmptyHeaders == <<>>

\* new PutObjectCommand({ key, policy, content })
PutObjectCommand(key, policy, content) ==
    [class |-> "PutObjectCommand", method |-> "PUT", key |-> key,
     headers |-> EmptyHeaders, policy |-> policy, content |-> content]
\* new GetObjectCommand({ key })
GetObjectCommand(key) ==
    [class |-> "GetObjectCommand", method |-> "GET", key |-> key,
     headers |-> EmptyHeaders, policy |-> Undefined, content |-> NoContent]
\* new DeleteObjectCommand({ key })
DeleteObjectCommand(key) ==
    [class |-> "DeleteObjectCommand", method |-> "DELETE", key |-> key,
     headers |-> EmptyHeaders, policy |-> Undefined, content |-> NoContent]

Commands ==
    {PutObjectCommand(k, p, StringContent) : k \in Keys, p \in Policies}
    \cup {PutObjectCommand(k, TestPolicy, NoContent) : k \in Keys}
    \cup {GetObjectCommand(k) : k \in Keys}
    \cup {DeleteObjectCommand(k) : k \in Keys}

\* mutant: every command that is no GET is taken to carry a policy
HasPolicy_NotGet(c) == c.method # "GET"

\* 'policy' in command: the getter PutObjectCommand.prototype.policy
HasPolicy(c) == c.class = "PutObjectCommand"

\* the expiresInSeconds argument: given or left out
Given(v) == [given |-> TRUE, v |-> v]
NotGiven == [given |-> FALSE, v |-> 0]
ExpiresArgs ==
    {NotGiven} \cup {Given(v) : v \in {0 - 1, MinExpiresInSeconds - 1, MinExpiresInSeconds,
                                       MaxExpiresInSeconds, MaxExpiresInSeconds + 1}}

(***************************************************************************)
(* Responses of the transport.  A body is [readable, text, json]: reading  *)
(* it rejects when readable is FALSE; json is what JSON.parse makes of the *)
(* text ([ok, v, message]).                                                *)
(***************************************************************************)
Body(readable, text, jsonOk, v) ==
    [readable |-> readable, text |-> text,
     json |-> [ok |-> jsonOk, v |-> v,
               message |-> IF jsonOk THEN "" ELSE "Unexpected token < in JSON at position 0"]]

ObjectData == Obj(<<Field("key", Str("k")), Field("bucket", Str("b")),
                    Field("accessControl", Str("public")), Field("message", Str("ok"))>>)

\* {"success":true,"data":{...}}
SuccessBody ==
    Body(TRUE, "{success:true,data}", TRUE,
         Obj(<<Field("success", Bool(TRUE)), Field("data", ObjectData)>>))
\* {"success":false,"error":{"type":"api_error","message":"Not Found","code":"404"}}
NotFoundBody ==
    Body(TRUE, "{success:false,error:api_error}", TRUE,
         Obj(<<Field("success", Bool(FALSE)),
               Field("error", Obj(<<Field("type", Str("api_error")),
                                    Field("message", Str("Not Found")),
                                    Field("code", Str("404"))>>))>>))
\* a failure envelope of a kind the server names, with details and an extra member
DeniedBody ==
    Body(TRUE, "{success:false,error:access_denied}", TRUE,
         Obj(<<Field("success", Bool(FALSE)),
               Field("error", Obj(<<Field("code", Str("403")),
                                    Field("type", Str("access_denied")),
                                    Field("message", Str("Forbidden")),
                                    Field("details", Obj(<<Field("reason", Str("acl"))>>)),
                                    Field("requestId", Str("r1"))>>))>>))
\* a failure envelope whose details are the number 0
ZeroDetailsBody ==
    Body(TRUE, "{success:false,error:quota,details:0}", TRUE,
         Obj(<<Field("success", Bool(FALSE)),
               Field("error", Obj(<<Field("code", Str("413")),
                                    Field("type", Str("api_error")),
                                    Field("message", Str("Too Large")),
                                    Field("details", Num(0))>>))>>))
\* JSON that is no envelope
ShapelessBody ==
    Body(TRUE, "{success:false}", TRUE, Obj(<<Field("success", Bool(FALSE))>>))
\* no JSON at all
HtmlBody == Body(TRUE, "<html>", FALSE, Null)
\* a body whose stream fails while it is read
BrokenBody == Body(FALSE, "", FALSE, Null)

Bodies ==
    {SuccessBody, NotFoundBody, DeniedBody, ZeroDetailsBody, ShapelessBody, HtmlBody,
     BrokenBody}

JsonType == Str("application/json")
HtmlType == Str("text/html")
\* what new Response(aString) declares when no content type is given
TextType == Str("text/plain;charset=UTF-8")

HttpOk == 200
HttpNotFound == 404

Response(status, statusText, contentType, body) ==
    [status |-> status, statusText |-> statusText, contentType |-> contentType,
     body |-> body]

NoResponse == Response(0, "", Null, BrokenBody)

Responses ==
    {Response(HttpOk, "OK", JsonType, b) : b \in Bodies}
    \cup {Response(HttpNotFound, "Not Found", JsonType, b) : b \in Bodies}
    \cup {Response(HttpOk, "OK", HtmlType, HtmlBody),
          Response(HttpOk, "OK", HtmlType, BrokenBody),
          Response(HttpNotFound, "Not Found", Null, HtmlBody),
          Response(HttpNotFound, "Not Found", Null, BrokenBody),
          Response(HttpOk, "OK", TextType, SuccessBody),
          Response(HttpNotFound, "Not Found", TextType, NotFoundBody)}

\* response.ok
ResponseOk(r) == r.status >= 200 /\ r.status <= 299

\* response.headers.get('content-type')?.includes('application/json')
ContentTypeIsJson(r) ==
    /\ r.contentType.k = "str"
    /\ r.contentType.s \in {"application/json", "application/json; charset=utf-8"}

(***************************************************************************)
(* The envelope schema (ApiResponseSchema) and the response classifier.    *)
(***************************************************************************)
HasField(o, name) == \E i \in 1..Len(o.fields) : o.fields[i].name = name

\* o[name]: undefined when the object has no such member
FieldValue(o, name) ==
    IF HasField(o, name)
    THEN o.fields[CHOOSE i \in 1..Len(o.fields) :
                    /\ o.fields[i].name = name
                    /\ \A j \in (i + 1)..Len(o.fields) : o.fields[j].name # name].v
    ELSE Undefined

IsString(v) == v.k = "str"

SchemaFail(issue) ==
    [ok |-> FALSE, success |-> FALSE, data |-> Undefined, error |-> NoError,
     issues |-> Str(issue)]

\* ApiErrorResponseSchema.error: code, type and message are strings, details is
\* optional and of any type; members the schema does not name are stripped
ErrorIsValid(e) ==
    /\ e.k = "obj"
    /\ IsString(FieldValue(e, "code"))
    /\ IsString(FieldValue(e, "type"))
    /\ IsString(FieldValue(e, "message"))

\* ApiResponseSchema.parseAsync(rawData): a union discriminated by success
ApiResponseSchemaParse(v) ==
    IF v.k # "obj" THEN SchemaFail("invalid_type")
    ELSE LET s == FieldValue(v, "success")
         IN IF s.k = "bool" /\ s.b
            THEN [ok |-> TRUE, success |-> TRUE, data |-> FieldValue(v, "data"),
                  error |-> NoError, issues |-> Undefined]
            ELSE IF s.k = "bool" /\ ~s.b
            THEN LET e == FieldValue(v, "error")
                 IN IF ErrorIsValid(e)
                    THEN [ok |-> TRUE, success |-> FALSE, data |-> Undefined,
                          error |-> [type |-> FieldValue(e, "type").s,
                                     message |-> FieldValue(e, "message").s,
                                     code |-> FieldValue(e, "code"),
                                     context |-> Undefined,
                                     details |-> FieldValue(e, "details")],
                          issues |-> Undefined]
                    ELSE SchemaFail("invalid_type")
            ELSE SchemaFail("invalid_union")

\* the values JavaScript's || passes over
Truthy(v) ==
    ~(\/ v.k \in {"undefined", "null"}
      \/ (v.k = "bool" /\ ~v.b)
      \/ (v.k = "num" /\ (~v.fin \/ v.n = 0))
      \/ (v.k = "str" /\ v.s = ""))

(***************************************************************************)
(* The validation-policy schema of lib/schemas.  The client imports its    *)
(* type only: no statement of the client evaluates the schema.             *)
(***************************************************************************)
\* z.string() / z.number() (finite numbers only) on a member of an object
IsStringMember(v, name) == HasField(v, name) /\ FieldValue(v, name).k = "str"
IsNumberValue(v) == v.k = "num" /\ v.fin
IsNumberMember(v, name) == HasField(v, name) /\ IsNumberValue(FieldValue(v, name))

\* ValidationConditionSchema: the union of the eight shapes of a condition
ValidationConditionSchema(v) ==
    \/ v.k = "str"
    \/ IsNumberValue(v)
    \/ /\ v.k = "obj"
       /\ \/ IsStringMember(v, s_startsWith)
          \/ IsStringMember(v, s_endsWith)
          \/ IsNumberMember(v, s_lte)
          \/ IsNumberMember(v, s_gte)
          \/ /\ HasField(v, s_oneOf)
             /\ FieldValue(v, s_oneOf).k = "arr"
             /\ \A i \in 1..Len(FieldValue(v, s_oneOf).items) :
                   LET x == FieldValue(v, s_oneOf).items[i]
                   IN x.k = "str" \/ IsNumberValue(x)
          \/ /\ HasField(v, s_range)
             /\ FieldValue(v, s_range).k = "arr"
             /\ Len(FieldValue(v, s_range).items) = 2
             /\ \A i \in 1..2 : IsNumberValue(FieldValue(v, s_range).items[i])

\* ApiPutRequestValidationPolicySchema: { apiPutV1: { conditions, accessControl } }
ApiPutRequestValidationPolicySchema(p) ==
    /\ p.k = "obj"
    /\ HasField(p, s_apiPutV1)
    /\ LET v1 == FieldValue(p, s_apiPutV1)
       IN /\ v1.k = "obj"
          /\ HasField(v1, s_conditions)
          /\ HasField(v1, s_accessControl)
          /\ LET conditions == FieldValue(v1, s_conditions)
             IN /\ conditions.k = "obj"
                /\ \A i \in 1..Len(conditions.fields) :
                      /\ conditions.fields[i].name # <<>>
                      /\ ValidationConditionSchema(conditions.fields[i].v)
          /\ FieldValue(v1, s_accessControl) \in {Str(s_public), Str(s_private)}

\* response.json(), wrapped by ResultAsync.fromPromise: a json_parse_error when
\* the body cannot be read or is no JSON
ReadJson(r) ==
    IF ~r.body.readable
    THEN [ok |-> FALSE, v |-> Null, message |-> "body stream error"]
    ELSE r.body.json

JsonParseError(r, message) ==
    Error("json_parse_error", "Failed to parse JSON response: " \o message, Undefined,
          Obj(<<Field("status", Num(r.status)), Field("statusText", Str(r.statusText))>>))

\* mutant: the context holds the violations but not the payload
SchemaValidationError_NoPayload(z, rawData) ==
    Error("validation_error", "API response validation failed: " \o z.issues.s, Undefined,
          Obj(<<Field("issues", z.issues)>>))

SchemaValidationError(z, rawData) ==
    Error("validation_error", "API response validation failed: " \o z.issues.s, Undefined,
          Obj(<<Field("issues", z.issues), Field("rawData", rawData)>>))

NotJsonError(r) ==
    Error("json_parse_error", "Response is not JSON", Undefined,
          Obj(<<Field("status", Num(r.status)), Field("statusText", Str(r.statusText)),
                Field("contentType", r.contentType),
                Field("content", Str(r.body.text))>>))

\* { ...validatedData.error, context: validatedData.error.details || response.statusText }
EnvelopeError(e, r) ==
    [e EXCEPT !.context = IF Truthy(e.details) THEN e.details ELSE Str(r.statusText)]

\* { success: true, data: validatedData.data }
Envelope(data) == [k |-> "envelope", success |-> TRUE, data |-> data]

\* the steps of parseJsonResponse after the content-type check
ClassifyJson(r, augment) ==
    LET j == ReadJson(r)
    IN IF ~j.ok THEN Err(JsonParseError(r, j.message))
       ELSE LET z == ApiResponseSchemaParse(j.v)
            IN IF ~z.ok THEN Err(SchemaValidationError(z, j.v))
               ELSE IF z.success THEN Ok(Envelope(z.data))
               ELSE Err(IF augment THEN EnvelopeError(z.error, r) ELSE z.error)

\* MedoroDataplaneClient.parseJsonResponse(response)
ParseJsonResponse(r) ==
    IF ~ContentTypeIsJson(r)
    THEN IF r.body.readable THEN Err(NotJsonError(r))
         ELSE Thrown("TypeError", "body stream error")
    ELSE ClassifyJson(r, TRUE)

\* MedoroClient.parseJsonResponse(response)
LegacyParseJsonResponse(r) == ClassifyJson(r, FALSE)

(***************************************************************************)
(* The signing orchestrator: the parts of createSignedUrl around its one   *)
(* await.                                                                  *)
(***************************************************************************)
Component(c) == [component |-> c, name |-> ""]
\* { component: '@query-param', parameters: { name } }
QueryParam(name) == [component |-> "@query-param", name |-> name]

BaseSignatureInputs ==
    <<Component("@method"), Component("@scheme"), Component("@authority"),
      Component("@path")>>

PolicyParam == "x-medoro-policy"
SignatureInputParam == "x-medoro-signature-input"
SignatureParam == "x-medoro-signature"

\* mutant: the lower limit itself is refused
ExpiryOutOfRange_OffByOne(e) == e <= MinExpiresInSeconds \/ e > MaxExpiresInSeconds

\* expiresInSeconds < 10 || expiresInSeconds > 604800
ExpiryOutOfRange(e) == e < MinExpiresInSeconds \/ e > MaxExpiresInSeconds

ValidationError ==
    Error("validation", "expiresInSeconds must be between 10 and 604800", Undefined,
          Undefined)

\* mutant: the policy is put on the URL as JSON text, without base64
EncodePolicy_NoBase64(policy) ==
    [ok |-> TRUE, text |-> JSONStringify(policy).text]

\* btoa(JSON.stringify(policy)): btoa turns the undefined that JSON.stringify
\* returns for an undefined policy into the string "undefined"
EncodePolicy(policy) ==
    LET j == JSONStringify(policy)
    IN btoa(IF j.undef THEN s_undefined ELSE j.text)

\* the inverse a reader of the URL applies: base64, then JSON
DecodePolicy(text) ==
    LET b == atob(text)
    IN IF b.ok THEN JSONParse(b.text) ELSE [ok |-> FALSE, v |-> Null]

Assembled(u, inputs) ==
    [thrown |-> FALSE, exception |-> "", url |-> u, signatureInputs |-> inputs]
AssembleThrows(name) ==
    [thrown |-> TRUE, exception |-> name, url |-> NoUrl, signatureInputs |-> <<>>]

\* createSignedUrl, from new URL(...) to the call of the signing primitive
AssembleRequest(c, origin) ==
    LET u == NewURL(c.key, origin)
    IN IF ~u.ok THEN AssembleThrows("TypeError")
       ELSE IF HasPolicy(c)
       THEN LET b == EncodePolicy(c.policy)
            IN IF ~b.ok THEN AssembleThrows("InvalidCharacterError")
               ELSE Assembled(SearchParamsSet(u.url, PolicyParam, b.text),
                              Append(BaseSignatureInputs, QueryParam(PolicyParam)))
       ELSE Assembled(u.url, BaseSignatureInputs)

\* MedoroClient.putObject, from btoa(...) to the call of createSignedUrl
LegacyAssemblePut(key, policy, origin) ==
    LET b == EncodePolicy(policy)
    IN IF ~b.ok THEN AssembleThrows("InvalidCharacterError")
       ELSE LET u == NewURL(key, origin)
            IN IF ~u.ok THEN AssembleThrows("TypeError")
               ELSE Assembled(SearchParamsAppend(u.url, PolicyParam, b.text),
                              Append(BaseSignatureInputs, QueryParam(PolicyParam)))

\* MedoroClient.getObject / deleteObject, up to the call of createSignedUrl
LegacyAssemble(key, origin) ==
    LET u == NewURL(key, origin)
    IN IF ~u.ok THEN AssembleThrows("TypeError")
       ELSE Assembled(u.url, BaseSignatureInputs)

\* the headers putObject derives from the content
LegacyPutHeaders(content) ==
    IF content.k = "string" THEN <<Pair("Content-Type", "text/plain")>>
    ELSE IF content.k = "Blob"
    THEN <<Pair("Content-Type",
                IF content.type # "" THEN content.type ELSE "application/octet-stream")>>
    ELSE <<Pair("Content-Type", "application/octet-stream")>>

\* the sign callback's mapping of a rejection of crypto.subtle.sign
SignatureError(message) ==
    Error("signature_error", "Failed to sign request: " \o message, Undefined, Undefined)

\* mutant: the signed URL also carries the signature under a third name
AppendSignature_Stamped(u, signatureInput, signature) ==
    SearchParamsSet(
        SearchParamsSet(SearchParamsSet(CopyURL(u), "x-medoro-signed", signature),
                        "x-medoro-signature-input", signatureInput),
        "x-medoro-signature", signature)

\* mutant: the signature input is appended, the signature is not
AppendSignature_InputOnly(u, signatureInput, signature) ==
    SearchParamsSet(CopyURL(u), "x-medoro-signature-input", signatureInput)

\* the signed copy of the URL
AppendSignature(u, signatureInput, signature) ==
    SearchParamsSet(SearchParamsSet(CopyURL(u), SignatureInputParam, signatureInput),
                    SignatureParam, signature)

\* mutant: the method returned is always GET
SignedUrlValue_Get(u, method) == [k |-> "signedUrl", signedUrl |-> u, method |-> "GET"]

SignedUrlValue(u, method) == [k |-> "signedUrl", signedUrl |-> u, method |-> method]

\* MedoroDataplaneClient.createSignedUrl after the await: r is the primitive's result
FinishSignedUrl(r, u, c) ==
    IF r.tag = "err" THEN Err(r.error)
    ELSE Ok(SignedUrlValue(AppendSignature(u, r.signatureInput, r.signature), c.method))

\* MedoroClient.createSignedUrl after the await
LegacyFinishSignedUrl(r, u) ==
    IF r.tag = "err" THEN Err(r.error)
    ELSE Ok(SignedUrlValue(AppendSignature(u, r.signatureInput, r.signature), ""))

\* mutant: putObject returns the signing failure as it is, like getObject
LegacySignatureError_PassThrough(e) == e

\* putObject's wrapping of a signing failure
LegacySignatureError(e) ==
    [type |-> "signature_error", message |-> e.message, code |-> e.code,
     context |-> e.context, details |-> Undefined]

\* mutant: the message names neither the method nor the failure
NetworkError_Bare(method, e) ==
    Error("network_error", "Network error", Undefined, Undefined)

\* mutant: the rejection is returned under the name of its exception class
NetworkError_ByClass(method, e) ==
    Error("TypeError", "Network error during " \o method \o ": " \o e.message,
          Undefined, Undefined)

\* the error of a rejected fetch: e instanceof Error ? e.message : String(e)
NetworkError(method, e) ==
    Error("network_error", "Network error during " \o method \o ": " \o e.message,
          Undefined, Undefined)

\* mutant: the code is the status as a number
ApiError_NumberCode(r) ==
    Error("api_error", "API returned a non-ok response", Num(r.status), Str(r.statusText))

\* send's error for a fetch answered with a non-ok status and a success envelope
ApiError(r) ==
    Error("api_error", "API returned a non-ok response", Str(ToString(r.status)),
          Str(r.statusText))

(***************************************************************************)
(* The dispatcher: what send and the MedoroClient methods do with the      *)
(* signed URL, with the response and with the classifier's result.         *)
(***************************************************************************)
Request(u, method, headers, body) ==
    [url |-> u, method |-> method, headers |-> headers, body |-> body]

NoRequest == Request(NoUrl, "", EmptyHeaders, NoContent)

Step(next, r, request) == [next |-> next, result |-> r, request |-> request]

\* mutant: send does not look at the result of createSignedUrl before it fetches
SendAfterSigning_IgnoresError(s, c) ==
    Step("fetch", Pending,
         Request(IF s.tag = "ok" THEN s.value.signedUrl ELSE NoUrl, c.method, c.headers,
                 IF c.class = "PutObjectCommand" THEN c.content ELSE NoContent))

\* mutant: send never passes a body to fetch
SendAfterSigning_NoBody(s, c) ==
    IF s.tag = "err" THEN Step("done", Err(s.error), NoRequest)
    ELSE Step("fetch", Pending, Request(s.value.signedUrl, c.method, c.headers, NoContent))

\* send, from the result of createSignedUrl to the call of fetch
SendAfterSigning(s, c) ==
    IF s.tag = "err" THEN Step("done", Err(s.error), NoRequest)
    ELSE Step("fetch", Pending,
              Request(s.value.signedUrl, c.method, c.headers,
                      IF c.class = "PutObjectCommand" THEN c.content ELSE NoContent))

\* putObject / getObject / deleteObject, from the result of createSignedUrl to fetch
LegacyAfterSigning(o, s, c) ==
    IF s.tag = "err"
    THEN Step("done",
              Err(IF o = "putObject" THEN LegacySignatureError(s.error) ELSE s.error),
              NoRequest)
    ELSE Step("fetch", Pending,
              Request(s.value.signedUrl, c.method, c.headers, c.content))

\* mutant: send classifies every response, also that of a successful fetch command
SendAfterResponse_ClassifiesAll(c, r) == Step("classify", Pending, NoRequest)

\* mutant: send asks again when the status is not a success
SendAfterResponse_Retries(c, r) ==
    IF ~ResponseOk(r) THEN Step("fetch", Pending, Request(NoUrl, c.method, c.headers, NoContent))
    ELSE IF c.class = "GetObjectCommand"
    THEN Step("done", Ok([k |-> "response", response |-> r]), NoRequest)
    ELSE Step("classify", Pending, NoRequest)

\* send, from the response to the classifier or to the result
SendAfterResponse(c, r) ==
    IF c.class = "GetObjectCommand" /\ ResponseOk(r)
    THEN Step("done", Ok([k |-> "response", response |-> r]), NoRequest)
    ELSE Step("classify", Pending, NoRequest)

LegacyAfterResponse(o, r) ==
    IF o = "getObject" /\ ResponseOk(r)
    THEN Step("done", Ok([k |-> "response", response |-> r]), NoRequest)
    ELSE Step("classify", Pending, NoRequest)

\* mutant: send returns the whole envelope where it should return its data
SendAfterClassify_WholeEnvelope(c, r, cr) ==
    IF cr.tag # "ok" THEN cr
    ELSE IF c.class = "GetObjectCommand" THEN Err(ApiError(r))
    ELSE Ok(cr.value)

\* send, from the classifier's result cr to its own result
SendAfterClassify(c, r, cr) ==
    IF cr.tag # "ok" THEN cr
    ELSE IF c.class = "GetObjectCommand" THEN Err(ApiError(r))
    ELSE Ok(cr.value.data)

LegacyAfterClassify(o, r, cr) ==
    IF cr.tag # "ok" THEN cr
    ELSE IF o = "getObject" THEN Err(ApiError(r))
    ELSE Ok(cr.value.data)

(***************************************************************************)
(* The environment: what the signing primitive, crypto.subtle.sign and     *)
(* fetch may answer.                                                       *)
(***************************************************************************)
\* failures of createSignatureForRequest itself
PrimitiveErrors ==
    { Error("signature_error", "Failed to encode signature input dictionary", Undefined,
            Undefined),
      Error("encoding_error", "Failed to encode signature input dictionary",
            Str("ERR_ENCODE"), Str("keyid")) }

SignOk(signatureInput, signature) ==
    [tag |-> "ok", error |-> NoError, signatureInput |-> signatureInput,
     signature |-> signature]
SignErr(e) == [tag |-> "err", error |-> e, signatureInput |-> <<>>, signature |-> <<>>]
NoSignResult == [tag |-> "none", error |-> NoError, signatureInput |-> <<>>,
                 signature |-> <<>>]

SignatureInputValues == {s_I1}
SignatureValues == {s_S1, s_S2}

\* what a rejected fetch is rejected with
FetchFailures == {[message |-> "Network request failed"], [message |-> "timeout"]}

NoFailure == [message |-> ""]

NoSignArgs ==
    [signatureInputs |-> <<>>, signatureLabel |-> "",
     additionalParams |-> [keyid |-> "", alg |-> "", created |-> Undefined,
                           expires |-> Undefined],
     request |-> [url |-> NoUrl, headers |-> EmptyHeaders, method |-> ""]]

NoCommand ==
    [class |-> "none", method |-> "", key |-> Key("", "invalid", "", "", "", <<>>),
     headers |-> EmptyHeaders, policy |-> Undefined, content |-> NoContent]

\* the arguments of a MedoroClient method, kept in the shape of a command
LegacyArgs(method, key, headers, policy, content) ==
    [class |-> "none", method |-> method, key |-> key, headers |-> headers,
     policy |-> policy, content |-> content]

\* a URL without the two parameters createSignedUrl adds after signing
Unsigned(u) ==
    [u EXCEPT !.query = RemoveName(RemoveName(u.query, SignatureInputParam),
                                   SignatureParam)]

\* what the caller keeps of a createSignedUrl that returned ok
Previous(c, e, u) == [command |-> c, expiresArg |-> e, url |-> Unsigned(u)]

NoPrevious == [command |-> NoCommand, expiresArg |-> NotGiven, url |-> NoUrl]

\* the local variables of an invocation that has not started
IdleFrame ==
    [pc |-> "idle", op |-> "none", command |-> NoCommand, expiresArg |-> NotGiven,
     url |-> NoUrl, signArgs |-> NoSignArgs, signResult |-> NoSignResult,
     fetchArgs |-> NoRequest, response |-> NoResponse, result |-> Pending,
     primitiveCalls |-> 0, cryptoCalls |-> 0, fetchCalls |-> 0, parseCalls |-> 0,
     trace |-> <<>>, fetchError |-> NoFailure, given |-> NoCommand]

\* a caller that holds no command
NoCaller == [held |-> NoCommand, supplied |-> Undefined]

DataplaneOps == {"createSignedUrl", "send"}
LegacyOps == {"putObject", "getObject", "deleteObject"}

(***************************************************************************)
(* State.                                                                  *)
(***************************************************************************)
VARIABLES
    client,          \* the client's private fields: origin, privateKey, keyId
    pc,              \* where the running call is: idle, primitive, cryptoSign,
                     \* fetch, classify, done
    op,              \* the public method that is running
    command,         \* its command (or arguments)
    expiresArg,      \* its expiresInSeconds argument
    url,             \* createSignedUrl's url, the URL handed to the primitive
    signArgs,        \* the arguments of the call of the signing primitive
    signResult,      \* what the primitive returned
    fetchArgs,       \* the arguments of the call of fetch
    response,        \* the response fetch resolved with
    result,          \* what the call returned to its caller
    primitiveCalls,  \* calls of createSignatureForRequest made by the running call
    cryptoCalls,     \* calls of crypto.subtle.sign
    fetchCalls,      \* calls of fetch
    parseCalls,      \* calls of parseJsonResponse
    trace,           \* the phases of the running call, as they start and end
    fetchError,      \* what fetch was rejected with
    given,           \* the command as the caller held it when the call was made
    prev,            \* the call before this one, if it was a createSignedUrl that
                     \* returned ok: its command, its expiry and the URL it
                     \* returned, without the signature
    parked,          \* the local variables of a second invocation on the same
                     \* client, suspended at an await while the first one runs
    caller           \* the caller's side: the store command it has built and
                     \* holds, and the policy it gave to the constructor

vars == <<client, pc, op, command, expiresArg, url, signArgs, signResult,
          fetchArgs, response, result, primitiveCalls, cryptoCalls, fetchCalls,
          parseCalls, trace, fetchError, given, prev, parked, caller>>

Init ==
    /\ client \in Clients
    /\ pc = "idle"
    /\ op = "none"
    /\ command = NoCommand
    /\ expiresArg = NotGiven
    /\ url = NoUrl
    /\ signArgs = NoSignArgs
    /\ signResult = NoSignResult
    /\ fetchArgs = NoRequest
    /\ response = NoResponse
    /\ result = Pending
    /\ primitiveCalls = 0
    /\ cryptoCalls = 0
    /\ fetchCalls = 0
    /\ parseCalls = 0
    /\ trace = <<>>
    /\ fetchError = NoFailure
    /\ given = NoCommand
    /\ prev = NoPrevious
    /\ parked = IdleFrame
    /\ caller = NoCaller

Complete(r) ==
    /\ pc' = "done"
    /\ result' = r

\* the call of createSignatureForRequest; Date.now() is read twice, and the
\* second may have passed between the two readings
CallPrimitive(a, c, expires) ==
    IF a.thrown
    THEN /\ Complete(Thrown(a.exception, ""))
         /\ UNCHANGED <<url, signArgs, primitiveCalls, trace>>
    ELSE \E later \in {ClockSeconds, ClockSeconds + 1} :
            /\ url' = a.url
            /\ signArgs' =
                 [signatureInputs |-> a.signatureInputs,
                  signatureLabel |-> "medoro",
                  additionalParams |->
                      [keyid |-> client.keyId, alg |-> "ed25519",
                       created |-> Num(ClockSeconds),
                       expires |-> IF expires.given THEN Num(later + expires.v)
                                   ELSE Undefined],
                  request |-> [url |-> a.url, headers |-> c.headers,
                               method |-> c.method]]
            /\ primitiveCalls' = primitiveCalls + 1
            /\ trace' = Append(trace, "sign:start")
            /\ pc' = "primitive"
            /\ result' = Pending

\* createSignedUrl up to its await (also as send's first step)
EnterCreateSignedUrl(c, seconds) ==
    IF ExpiryOutOfRange(seconds)
    THEN /\ Complete(Err(ValidationError))
         /\ UNCHANGED <<url, signArgs, primitiveCalls, trace>>
    ELSE CallPrimitive(AssembleRequest(c, client.origin), c, Given(seconds))

ExpiresInSeconds(e) == IF e.given THEN e.v ELSE DefaultExpiresInSeconds

\* client.createSignedUrl({ command, expiresInSeconds })
CallCreateSignedUrl(c, e) ==
    /\ pc = "idle"
    /\ op' = "createSignedUrl"
    /\ command' = c
    /\ expiresArg' = e
    /\ EnterCreateSignedUrl(c, ExpiresInSeconds(e))
    /\ given' = command'
    /\ UNCHANGED <<parked, caller, fetchError, client, signResult, fetchArgs, response, cryptoCalls,
                   fetchCalls, parseCalls, prev>>

\* client.send({ command })
CallSend(c) ==
    /\ pc = "idle"
    /\ op' = "send"
    /\ command' = c
    /\ expiresArg' = NotGiven
    /\ EnterCreateSignedUrl(c, ExpiresInSeconds(NotGiven))
    /\ given' = command'
    /\ prev' = NoPrevious
    /\ UNCHANGED <<parked, caller, fetchError, client, signResult, fetchArgs, response, cryptoCalls,
                   fetchCalls, parseCalls>>

\* MedoroClient.putObject({ key, content, policy })
CallPutObject(key, content, policy) ==
    /\ pc = "idle"
    /\ op' = "putObject"
    /\ command' = LegacyArgs("PUT", key, LegacyPutHeaders(content), policy, content)
    /\ expiresArg' = NotGiven
    /\ CallPrimitive(LegacyAssemblePut(key, policy, client.origin), command', NotGiven)
    /\ given' = command'
    /\ prev' = NoPrevious
    /\ UNCHANGED <<parked, caller, fetchError, client, signResult, fetchArgs, response, cryptoCalls,
                   fetchCalls, parseCalls>>

\* MedoroClient.getObject({ key }) and MedoroClient.deleteObject({ key })
CallLegacy(o, method, key) ==
    /\ pc = "idle"
    /\ op' = o
    /\ command' = LegacyArgs(method, key, EmptyHeaders, Undefined, NoContent)
    /\ expiresArg' = NotGiven
    /\ CallPrimitive(LegacyAssemble(key, client.origin), command', NotGiven)
    /\ given' = command'
    /\ prev' = NoPrevious
    /\ UNCHANGED <<parked, caller, fetchError, client, signResult, fetchArgs, response, cryptoCalls,
                   fetchCalls, parseCalls>>

CallGetObject(key) == CallLegacy("getObject", "GET", key)
CallDeleteObject(key) == CallLegacy("deleteObject", "DELETE", key)

\* the running call goes on as the step n says, after the events ev
Advance(n, ev) ==
    CASE n.next = "done" ->
            /\ Complete(n.result)
            /\ trace' = trace \o ev
            /\ UNCHANGED <<fetchArgs, fetchCalls, parseCalls>>
      [] n.next = "fetch" ->
            /\ pc' = "fetch"
            /\ fetchArgs' = n.request
            /\ fetchCalls' = fetchCalls + 1
            /\ trace' = trace \o ev \o <<"fetch:start">>
            /\ result' = Pending
            /\ UNCHANGED parseCalls
      [] n.next = "classify" ->
            /\ pc' = "classify"
            /\ parseCalls' = parseCalls + 1
            /\ trace' = trace \o ev \o <<"classify:start">>
            /\ result' = Pending
            /\ UNCHANGED <<fetchArgs, fetchCalls>>

\* the primitive has returned r: the rest of createSignedUrl, then of its caller
AfterSigning(r) ==
    /\ signResult' = r
    /\ LET s == IF op \in DataplaneOps THEN FinishSignedUrl(r, url, command)
                ELSE LegacyFinishSignedUrl(r, url)
       IN Advance(IF op = "createSignedUrl" THEN Step("done", s, NoRequest)
                  ELSE IF op = "send" THEN SendAfterSigning(s, command)
                  ELSE LegacyAfterSigning(op, s, command),
                  <<"sign:end">>)

\* createSignatureForRequest fails before it asks for a signature: it cannot
\* encode the parameters of a client that has no key id
PrimitiveFails(e) ==
    /\ pc = "primitive"
    /\ client.keyId = NullValue
    /\ AfterSigning(SignErr(e))
    /\ UNCHANGED <<parked, caller, fetchError, given, prev, client, op, command, expiresArg, url, signArgs,
                   response,
                   primitiveCalls, cryptoCalls>>

\* createSignatureForRequest calls the sign callback, which calls crypto.subtle.sign
PrimitiveCallsSign ==
    /\ pc = "primitive"
    /\ client.keyId # NullValue
    /\ pc' = "cryptoSign"
    /\ cryptoCalls' = cryptoCalls + 1
    /\ UNCHANGED <<parked, caller, fetchError, given, prev, client, op, command, expiresArg, url, signArgs,
                   signResult,
                   fetchArgs, response, result, primitiveCalls, fetchCalls, parseCalls,
                   trace>>

\* crypto.subtle.sign resolves; the callback returns ok and the primitive returns
\* the signature input and the signature
CryptoSignResolves(signatureInput, signature) ==
    /\ pc = "cryptoSign"
    /\ client.privateKey # NullValue
    /\ AfterSigning(SignOk(signatureInput, signature))
    /\ UNCHANGED <<parked, caller, fetchError, given, prev, client, op, command, expiresArg, url, signArgs,
                   response,
                   primitiveCalls, cryptoCalls>>

\* crypto.subtle.sign rejects (no key); the callback returns err, which the
\* primitive returns
CryptoSignRejects ==
    /\ pc = "cryptoSign"
    /\ client.privateKey = NullValue
    /\ AfterSigning(SignErr(SignatureError("key is not a CryptoKey")))
    /\ UNCHANGED <<parked, caller, fetchError, given, prev, client, op, command, expiresArg, url, signArgs,
                   response,
                   primitiveCalls, cryptoCalls>>

\* fetch rejects
FetchRejects(e) ==
    /\ pc = "fetch"
    /\ fetchError' = e
    /\ Advance(Step("done", Err(NetworkError(command.method, e)), NoRequest),
               <<"fetch:end">>)
    /\ UNCHANGED <<parked, caller, given, prev, client, op, command, expiresArg, url, signArgs,
                   signResult,
                   response, primitiveCalls, cryptoCalls>>

\* fetch resolves with r
FetchResolves(r) ==
    /\ pc = "fetch"
    /\ response' = r
    /\ Advance(IF op = "send" THEN SendAfterResponse(command, r)
               ELSE LegacyAfterResponse(op, r),
               <<"fetch:end">>)
    /\ UNCHANGED <<parked, caller, fetchError, given, prev, client, op, command, expiresArg, url, signArgs,
                   signResult,
                   primitiveCalls, cryptoCalls>>

\* parseJsonResponse has read the body and returns
ClassifierReturns ==
    /\ pc = "classify"
    /\ Advance(Step("done",
                    IF op = "send"
                    THEN SendAfterClassify(command, response, ParseJsonResponse(response))
                    ELSE LegacyAfterClassify(op, response,
                                             LegacyParseJsonResponse(response)),
                    NoRequest),
               <<"classify:end">>)
    /\ UNCHANGED <<parked, caller, fetchError, given, prev, client, op, command, expiresArg, url, signArgs,
                   signResult,
                   response, primitiveCalls, cryptoCalls>>

\* the caller has the result; the client is ready for the next call
Return ==
    /\ pc = "done"
    /\ pc' = "idle"
    /\ op' = "none"
    /\ command' = NoCommand
    /\ expiresArg' = NotGiven
    /\ url' = NoUrl
    /\ signArgs' = NoSignArgs
    /\ signResult' = NoSignResult
    /\ fetchArgs' = NoRequest
    /\ response' = NoResponse
    /\ result' = Pending
    /\ primitiveCalls' = 0
    /\ cryptoCalls' = 0
    /\ fetchCalls' = 0
    /\ parseCalls' = 0
    /\ trace' = <<>>
    /\ fetchError' = NoFailure
    /\ given' = NoCommand
    /\ prev' = IF op = "createSignedUrl" /\ result.tag = "ok"
               THEN Previous(command, expiresArg, result.value.signedUrl)
               ELSE NoPrevious
    /\ UNCHANGED <<client, parked, caller>>

LegacyContents == {StringContent, BlobContent, UntypedBlobContent, ArrayBufferContent}

Next ==
    \/ \E c \in Commands, e \in ExpiresArgs : CallCreateSignedUrl(c, e)
    \/ \E c \in Commands : CallSend(c)
    \/ \E k \in Keys, p \in Policies : CallPutObject(k, StringContent, p)
    \/ \E k \in Keys, ct \in LegacyContents : CallPutObject(k, ct, TestPolicy)
    \/ \E k \in Keys : CallGetObject(k)
    \/ \E k \in Keys : CallDeleteObject(k)
    \/ \E e \in PrimitiveErrors : PrimitiveFails(e)
    \/ PrimitiveCallsSign
    \/ \E i \in SignatureInputValues, s \in SignatureValues : CryptoSignResolves(i, s)
    \/ CryptoSignRejects
    \/ \E e \in FetchFailures : FetchRejects(e)
    \/ \E r \in Responses : FetchResolves(r)
    \/ ClassifierReturns
    \/ Return

Spec == Init /\ [][Next]_vars

(***************************************************************************)
(* Two invocations on one client.  JavaScript runs one invocation at a     *)
(* time and changes to the other only at an await; every state of this     *)
(* model is at an await.  What an invocation keeps across the await are    *)
(* the parameters and local constants of createSignedUrl and send.         *)
(***************************************************************************)
MakeFrame(u) ==
    [pc |-> pc, op |-> op, command |-> command, expiresArg |-> expiresArg,
     url |-> u, signArgs |-> signArgs, signResult |-> signResult,
     fetchArgs |-> fetchArgs, response |-> response, result |-> result,
     primitiveCalls |-> primitiveCalls, cryptoCalls |-> cryptoCalls,
     fetchCalls |-> fetchCalls, parseCalls |-> parseCalls, trace |-> trace,
     fetchError |-> fetchError, given |-> given]

\* mutant: url is one variable for both invocations, so that the invocation
\* that is suspended wakes up with the URL of the other
Frame_SharedUrl == MakeFrame(parked.url)

\* the local variables of the running invocation
Frame == MakeFrame(url)

\* the event loop suspends the running invocation and resumes the other
Switch ==
    /\ parked' = Frame
    /\ pc' = parked.pc
    /\ op' = parked.op
    /\ command' = parked.command
    /\ expiresArg' = parked.expiresArg
    /\ url' = parked.url
    /\ signArgs' = parked.signArgs
    /\ signResult' = parked.signResult
    /\ fetchArgs' = parked.fetchArgs
    /\ response' = parked.response
    /\ result' = parked.result
    /\ primitiveCalls' = parked.primitiveCalls
    /\ cryptoCalls' = parked.cryptoCalls
    /\ fetchCalls' = parked.fetchCalls
    /\ parseCalls' = parked.parseCalls
    /\ trace' = parked.trace
    /\ fetchError' = parked.fetchError
    /\ given' = parked.given
    /\ UNCHANGED <<client, prev, caller>>

ConcClients == {c \in Clients : c.origin = BucketOrigin}

ConcKeys == {k \in Keys : k.form = "path"}

ConcCommands ==
    {PutObjectCommand(k, TestPolicy, StringContent) : k \in ConcKeys}
    \cup {GetObjectCommand(k) : k \in ConcKeys}

ConcExpires == {NotGiven, Given(MinExpiresInSeconds - 1)}

ConcResponses ==
    {Response(HttpOk, "OK", JsonType, SuccessBody),
     Response(HttpNotFound, "Not Found", JsonType, NotFoundBody),
     Response(HttpNotFound, "Not Found", Null, HtmlBody)}

ConcInit == Init /\ client \in ConcClients

ConcNext ==
    \/ \E c \in ConcCommands, e \in ConcExpires : CallCreateSignedUrl(c, e)
    \/ \E c \in ConcCommands : CallSend(c)
    \/ \E e \in PrimitiveErrors : PrimitiveFails(e)
    \/ PrimitiveCallsSign
    \/ \E i \in SignatureInputValues, s \in SignatureValues : CryptoSignResolves(i, s)
    \/ CryptoSignRejects
    \/ \E e \in FetchFailures : FetchRejects(e)
    \/ \E r \in ConcResponses : FetchResolves(r)
    \/ ClassifierReturns
    \/ Switch

ConcSpec == ConcInit /\ [][ConcNext]_vars

(***************************************************************************)
(* The caller's policy object.  The constructor of PutObjectCommand keeps  *)
(* the reference it is given, and the getter hands the same reference out, *)
(* so what the caller writes into the object is what the command holds.    *)
(***************************************************************************)
\* new PutObjectCommand({ key, policy, content }): this.#policy = policy
Construct(c) ==
    /\ pc = "idle"
    /\ caller = NoCaller
    /\ caller' = [held |-> c, supplied |-> c.policy]
    /\ UNCHANGED <<client, pc, op, command, expiresArg, url, signArgs, signResult,
                   fetchArgs, response, result, primitiveCalls, cryptoCalls,
                   fetchCalls, parseCalls, trace, fetchError, given, prev, parked>>

\* the caller writes into the object it passed in (or got from command.policy)
MutatePolicy(p) ==
    /\ pc = "idle"
    /\ caller.held # NoCommand
    /\ p # caller.held.policy
    /\ caller' = [caller EXCEPT !.held.policy = p]
    /\ UNCHANGED <<client, pc, op, command, expiresArg, url, signArgs, signResult,
                   fetchArgs, response, result, primitiveCalls, cryptoCalls,
                   fetchCalls, parseCalls, trace, fetchError, given, prev, parked>>

\* createSignedUrl({ command, expiresInSeconds }) with the command the caller holds
CallWithHeld(e) ==
    /\ caller.held # NoCommand
    /\ CallCreateSignedUrl(caller.held, e)

HeldKeys == {k \in Keys : k.form = "path"}
HeldPolicies == {TestPolicy, RangePolicy, PublicReadPolicy}

PolicyInit == Init /\ client \in ConcClients

PolicyNext ==
    \/ \E k \in HeldKeys, p \in HeldPolicies :
            Construct(PutObjectCommand(k, p, StringContent))
    \/ \E p \in HeldPolicies : MutatePolicy(p)
    \/ \E e \in {NotGiven, Given(MinExpiresInSeconds)} : CallWithHeld(e)
    \/ \E e \in PrimitiveErrors : PrimitiveFails(e)
    \/ PrimitiveCallsSign
    \/ \E i \in SignatureInputValues, s \in SignatureValues : CryptoSignResolves(i, s)
    \/ CryptoSignRejects
    \/ Return

PolicySpec == PolicyInit /\ [][PolicyNext]_vars

(***************************************************************************)
(* Properties.                                                             *)
(***************************************************************************)
\* C1: createSignedUrl returns an error of kind 'validation' exactly when
\* expiresInSeconds is below 10 or above 604800 (60 stands for an omitted
\* argument), and then calls neither the signing primitive nor
\* crypto.subtle.sign nor fetch.
C1_ValidationExactlyOutOfRange ==
    op = "createSignedUrl" =>
        LET seconds == IF expiresArg.given THEN expiresArg.v ELSE 60
            outside == seconds < 10 \/ seconds > 604800
        IN /\ pc = "done" =>
                ((result.tag = "err" /\ result.error.type = "validation") <=> outside)
           /\ outside =>
                (pc = "done" /\ primitiveCalls = 0 /\ cryptoCalls = 0 /\ fetchCalls = 0)
           /\ ~outside /\ primitiveCalls > 0 =>
                (signArgs.additionalParams.expires.n
                    - signArgs.additionalParams.created.n) \in {seconds, seconds + 1}

C1_Witness ==
    /\ op = "createSignedUrl"
    /\ pc = "done"
    /\ expiresArg = Given(604801)
    /\ result.tag = "err"
    /\ result.error.type = "validation"
    /\ primitiveCalls = 0

\* C2: when the signing primitive succeeds, the URL createSignedUrl returns (and
\* send fetches) carries x-medoro-signature-input and x-medoro-signature with the
\* values the primitive returned; when it fails, an error is returned, no URL is
\* returned and nothing is fetched.
C2_SignatureParamsIffSigned ==
    op \in DataplaneOps =>
        /\ (signResult.tag = "ok" /\ op = "createSignedUrl") =>
              /\ pc = "done"
              /\ result.tag = "ok"
              /\ SearchParamsGetAll(result.value.signedUrl, "x-medoro-signature-input")
                    = <<signResult.signatureInput>>
              /\ SearchParamsGetAll(result.value.signedUrl, "x-medoro-signature")
                    = <<signResult.signature>>
        /\ (signResult.tag = "ok" /\ op = "send") =>
              /\ fetchCalls = 1
              /\ SearchParamsGetAll(fetchArgs.url, "x-medoro-signature-input")
                    = <<signResult.signatureInput>>
              /\ SearchParamsGetAll(fetchArgs.url, "x-medoro-signature")
                    = <<signResult.signature>>
        /\ signResult.tag = "err" =>
              /\ pc = "done"
              /\ result.tag = "err"
              /\ result.value = NoValue
              /\ fetchCalls = 0

C2_Witness ==
    /\ op = "createSignedUrl"
    /\ pc = "done"
    /\ signResult.tag = "ok"
    /\ signResult.signature = s_S2
    /\ result.tag = "ok"
    /\ command.key.query # <<>>

RECURSIVE JsonRepresentable(_)
\* a value JSON can write: no undefined and no number that is not finite in it
JsonRepresentable(v) ==
    CASE v.k \in {"null", "bool", "str"} -> TRUE
      [] v.k = "num" -> v.fin
      [] v.k = "undefined" -> FALSE
      [] v.k = "arr" -> \A i \in 1..Len(v.items) : JsonRepresentable(v.items[i])
      [] v.k = "obj" -> \A i \in 1..Len(v.fields) : JsonRepresentable(v.fields[i].v)

C4_SignedComponents ==
    primitiveCalls > 0 =>
        LET four == <<[component |-> "@method", name |-> ""],
                      [component |-> "@scheme", name |-> ""],
                      [component |-> "@authority", name |-> ""],
                      [component |-> "@path", name |-> ""]>>
            five == Append(four, [component |-> "@query-param",
                                  name |-> "x-medoro-policy"])
            signed == signArgs.request.url
            returned == op = "createSignedUrl" /\ result.tag = "ok"
        IN IF command.method = "PUT"
           THEN /\ signArgs.signatureInputs = five
                /\ HasParam(signed.query, "x-medoro-policy")
                /\ returned => HasParam(result.value.signedUrl.query, "x-medoro-policy")
           ELSE /\ signArgs.signatureInputs = four
                /\ signed.query = command.key.query
                /\ returned =>
                     SearchParamsGetAll(result.value.signedUrl, "x-medoro-policy")
                        = SearchParamsGetAll(command.key, "x-medoro-policy")

C4_Witness ==
    /\ op = "createSignedUrl"
    /\ pc = "done"
    /\ result.tag = "ok"
    /\ command.class = "PutObjectCommand"
    /\ Len(signArgs.signatureInputs) = 5

Phases ==
    <<"sign:start", "sign:end", "fetch:start", "fetch:end", "classify:start",
      "classify:end">>

\* C5: within one send the phases signing, dispatch, classification run in this
\* order, each ending before the next starts; after a signing failure fetch is
\* never called, and after a transport failure the classifier is never invoked.
C5_PhasesInOrder ==
    op = "send" =>
        /\ Len(trace) <= Len(Phases)
        /\ trace = SubSeq(Phases, 1, Len(trace))
        /\ primitiveCalls = (IF Len(trace) >= 1 THEN 1 ELSE 0)
        /\ fetchCalls = (IF Len(trace) >= 3 THEN 1 ELSE 0)
        /\ parseCalls = (IF Len(trace) >= 5 THEN 1 ELSE 0)
        /\ signResult.tag = "err" => (pc = "done" /\ fetchCalls = 0 /\ parseCalls = 0)
        /\ (pc = "done" /\ fetchCalls = 1 /\ response = NoResponse) =>
              (parseCalls = 0 /\ result.tag = "err"
               /\ result.error.type = "network_error")

C5_Witness ==
    /\ op = "send"
    /\ pc = "done"
    /\ trace = Phases
    /\ result.tag = "ok"

\* C6 (as amended): every send calls fetch at most once, exactly once when
\* signing succeeded and not at all otherwise, and ends with one outcome; no
\* outcome of signing, transport or classification causes a second fetch.
C6_AtMostOneExchange ==
    op = "send" =>
        /\ fetchCalls <= 1
        /\ pc = "done" => (fetchCalls = 1 <=> signResult.tag = "ok")
        /\ pc = "done" <=> result.tag # "pending"

C6_Witness ==
    /\ op = "send"
    /\ pc = "done"
    /\ signResult.tag = "err"
    /\ fetchCalls = 0
    /\ result.tag = "err"

\* C6 as stated: every send that returns a Result has called fetch exactly once.
C6_Original ==
    (op = "send" /\ pc = "done" /\ result.tag \in {"ok", "err"}) => fetchCalls = 1

\* C7: send and createSignedUrl complete by returning an ok or err Result; no
\* exception or promise rejection escapes to the caller.
C7_NothingThrows ==
    (op \in DataplaneOps /\ pc = "done") => result.tag \in {"ok", "err"}

Taxonomy ==
    {"validation", "signature_error", "network_error", "json_parse_error",
     "validation_error", "api_error"}

\* the type a failure envelope in the body of r names, "" when there is none
EnvelopeType(r) ==
    LET v == r.body.json.v
        e == IF v.k = "obj" THEN FieldValue(v, "error") ELSE Undefined
        ty == IF e.k = "obj" THEN FieldValue(e, "type") ELSE Undefined
    IN IF r.body.readable /\ r.body.json.ok /\ ty.k = "str" THEN ty.s ELSE ""

C9_SigningFailureIsSignatureError ==
    (op \in DataplaneOps /\ signResult.tag = "err") =>
        /\ pc = "done"
        /\ result.tag = "err"
        /\ result.error.type = "signature_error"
        /\ primitiveCalls = 1

\* C10: when signing fails inside MedoroClient.putObject, the result is an error
\* of type 'signature_error' whose message, code and context are those of the
\* signing failure, and fetch is never called.
C10_PutObjectSignatureError ==
    (op = "putObject" /\ signResult.tag = "err") =>
        /\ pc = "done"
        /\ fetchCalls = 0
        /\ result.tag = "err"
        /\ result.error.type = "signature_error"
        /\ result.error.message = signResult.error.message
        /\ result.error.code = signResult.error.code
        /\ result.error.context = signResult.error.context

C10_Witness ==
    /\ op = "putObject"
    /\ pc = "done"
    /\ client.privateKey = NullValue
    /\ client.keyId = NullValue
    /\ signResult.tag = "err"
    /\ signResult.error.type = "encoding_error"
    /\ result.error.type = "signature_error"
    /\ fetchCalls = 0

\* the running call has called fetch and fetch has rejected
FetchRejected == pc = "done" /\ fetchCalls >= 1 /\ fetchError # NoFailure

\* the running call has called fetch and has gone on with its response
FetchAnswered == pc = "done" /\ fetchCalls >= 1 /\ fetchError = NoFailure

\* C11: for every command kind, when fetch rejects the result is an error of type
\* 'network_error' whose message is 'Network error during <METHOD>: <failure
\* text>' and which has neither code nor context; no further fetch is made and
\* the classifier is not called.
C11_TransportRejection ==
    (op \in {"send"} \cup LegacyOps /\ FetchRejected) =>
        /\ result.tag = "err"
        /\ result.error.type = "network_error"
        /\ result.error.message =
              "Network error during " \o command.method \o ": " \o fetchError.message
        /\ result.error.code = Undefined
        /\ result.error.context = Undefined
        /\ fetchCalls = 1
        /\ parseCalls = 0

C11_Witness ==
    /\ op = "send"
    /\ FetchRejected
    /\ command.class = "DeleteObjectCommand"
    /\ result.error.message = "Network error during DELETE: Network request failed"

\* the JSON value the body of r holds, undefined when it cannot be read or parsed
ParsedBody(r) == IF r.body.readable /\ r.body.json.ok THEN r.body.json.v ELSE Undefined

\* { success: true, data: any }
IsSuccessEnvelope(v) == v.k = "obj" /\ FieldValue(v, "success") = Bool(TRUE)

\* { success: false, error: { code: string, type: string, message: string, details? } }
IsFailureEnvelope(v) ==
    /\ v.k = "obj"
    /\ FieldValue(v, "success") = Bool(FALSE)
    /\ LET e == FieldValue(v, "error")
       IN /\ e.k = "obj"
          /\ FieldValue(e, "code").k = "str"
          /\ FieldValue(e, "type").k = "str"
          /\ FieldValue(e, "message").k = "str"

\* the error e has the type, message and code of the failure envelope v
SameError(e, v) ==
    LET w == FieldValue(v, "error")
    IN /\ Str(e.type) = FieldValue(w, "type")
       /\ Str(e.message) = FieldValue(w, "message")
       /\ e.code = FieldValue(w, "code")

\* the call is one that stores or removes an object
StoresOrRemoves ==
    \/ op = "send" /\ command.class \in {"PutObjectCommand", "DeleteObjectCommand"}
    \/ op \in {"putObject", "deleteObject"}

\* the classifier of the running call accepts the declared content type of r
TakenAsJson(r) == op \in LegacyOps \/ ContentTypeIsJson(r)

Fetches ==
    \/ op = "send" /\ command.class = "GetObjectCommand"
    \/ op = "getObject"

\* C13: for a fetch command answered with a non-success HTTP status the result is
\* always an error: the envelope's error (its type, message and code) when the
\* body is a valid failure envelope (read here as: of a response declared as
\* JSON), the classification failure otherwise.
C13_FetchNonSuccess ==
    (op = "send" /\ Fetches /\ FetchAnswered /\ ~ResponseOk(response)) =>
        LET v == ParsedBody(response)
        IN /\ result.tag = "err"
           /\ (ContentTypeIsJson(response) /\ IsFailureEnvelope(v)) =>
                 SameError(result.error, v)

\* C14: a non-success HTTP status without a structured error body (taken here
\* with a body that can be read) gives the caller an error of kind 'api_error'
\* whose code is the HTTP status.
C14_ApiErrorWithoutBody ==
    (/\ op \in {"send", "getObject"}
     /\ FetchAnswered
     /\ ~ResponseOk(response)
     /\ response.body.readable
     /\ ~IsFailureEnvelope(ParsedBody(response))) =>
        /\ result.tag = "err"
        /\ result.error.type = "api_error"
        /\ result.error.code = Str(ToString(response.status))

\* C15: for a fetch command answered with an HTTP success status, send returns ok
\* with the very response fetch resolved with, for every body and content type;
\* the Response Classifier is not called, so the body is left unread.
C15_FetchSuccessIsRaw ==
    (Fetches /\ FetchAnswered /\ ResponseOk(response)) =>
        /\ result = Ok([k |-> "response", response |-> response])
        /\ parseCalls = 0
        /\ trace = SubSeq(Phases, 1, 4)

C15_Witness ==
    /\ op = "send"
    /\ Fetches
    /\ FetchAnswered
    /\ response = Response(HttpOk, "OK", JsonType, DeniedBody)
    /\ result.tag = "ok"

\* C16: where a JSON envelope is expected, a response whose declared content type
\* is not JSON yields 'json_parse_error' with the HTTP status, the status text, the
\* declared content type and the raw text of the body as context, and a response
\* whose body is malformed JSON yields 'json_parse_error' whose message embeds the
\* parser's message and whose context holds the HTTP status and the status text.
C16_JsonParseErrors ==
    (op = "send" /\ pc = "done" /\ parseCalls = 1) =>
        /\ ~ContentTypeIsJson(response) =>
              /\ result.tag = "err"
              /\ result.error.type = "json_parse_error"
              /\ result.error.context =
                    Obj(<<Field("status", Num(response.status)),
                          Field("statusText", Str(response.statusText)),
                          Field("contentType", response.contentType),
                          Field("content", Str(response.body.text))>>)
        /\ (ContentTypeIsJson(response) /\ response.body.readable
                /\ ~response.body.json.ok) =>
              /\ result.tag = "err"
              /\ result.error.type = "json_parse_error"
              /\ result.error.message =
                    "Failed to parse JSON response: " \o response.body.json.message
              /\ result.error.context =
                    Obj(<<Field("status", Num(response.status)),
                          Field("statusText", Str(response.statusText))>>)

\* C17: every parsed JSON body that is neither a success envelope nor a failure
\* envelope yields 'validation_error' with the schema violations and the raw
\* payload as context; it yields neither a success value nor the server's error.
C17_SchemaViolation ==
    (/\ op \in {"send"} \cup LegacyOps
     /\ pc = "done"
     /\ parseCalls = 1
     /\ TakenAsJson(response)
     /\ response.body.readable
     /\ response.body.json.ok
     /\ ~IsSuccessEnvelope(ParsedBody(response))
     /\ ~IsFailureEnvelope(ParsedBody(response))) =>
        /\ result.tag = "err"
        /\ result.value = NoValue
        /\ result.error.type = "validation_error"
        /\ result.error.context.k = "obj"
        /\ FieldValue(result.error.context, "issues") # Undefined
        /\ FieldValue(result.error.context, "rawData") = ParsedBody(response)

C17_Witness ==
    /\ op = "send"
    /\ pc = "done"
    /\ parseCalls = 1
    /\ response = Response(HttpNotFound, "Not Found", JsonType, ShapelessBody)
    /\ result.tag = "err"
    /\ result.error.type = "validation_error"

\* C18: for every valid failure envelope the classifier's error carries the
\* envelope's code, type and message; its context is the envelope's details
\* whenever the envelope has a details member, whatever its value, and the HTTP
\* status text only when it has none.
C18_DetailsAsContext ==
    (/\ op = "send"
     /\ pc = "done"
     /\ parseCalls = 1
     /\ ContentTypeIsJson(response)
     /\ IsFailureEnvelope(ParsedBody(response))) =>
        LET e == FieldValue(ParsedBody(response), "error")
        IN /\ result.tag = "err"
           /\ SameError(result.error, ParsedBody(response))
           /\ result.error.context =
                 IF HasField(e, "details") THEN FieldValue(e, "details")
                 ELSE Str(response.statusText)

\* the createSignedUrl that has just returned ok repeats the call before it: the
\* same command and the same expiry
RepeatsPrevious ==
    /\ op = "createSignedUrl"
    /\ pc = "done"
    /\ result.tag = "ok"
    /\ prev # NoPrevious
    /\ prev.command = command
    /\ prev.expiresArg = expiresArg

Alone(f) ==
    LET a == AssembleRequest(f.command, client.origin)
        s == FinishSignedUrl(f.signResult, a.url, f.command)
    IN IF ExpiryOutOfRange(ExpiresInSeconds(f.expiresArg)) THEN Err(ValidationError)
       ELSE IF a.thrown THEN Thrown(a.exception, "")
       ELSE IF f.op = "createSignedUrl" THEN s
       ELSE IF SendAfterSigning(s, f.command).next = "done"
       THEN SendAfterSigning(s, f.command).result
       ELSE IF f.fetchError # NoFailure
       THEN Err(NetworkError(f.command.method, f.fetchError))
       ELSE IF SendAfterResponse(f.command, f.response).next = "done"
       THEN SendAfterResponse(f.command, f.response).result
       ELSE SendAfterClassify(f.command, f.response, ParseJsonResponse(f.response))

\* the request the invocation with the local variables f sends when it runs alone
AloneRequest(f) ==
    LET a == AssembleRequest(f.command, client.origin)
    IN SendAfterSigning(FinishSignedUrl(f.signResult, a.url, f.command), f.command).request

AsAlone(f) ==
    /\ f.pc = "done" => f.result = Alone(f)
    /\ f.fetchCalls > 0 => f.fetchArgs = AloneRequest(f)
    /\ f.primitiveCalls > 0 =>
          f.signArgs.request.url = AssembleRequest(f.command, client.origin).url

\* C21: whatever the interleaving of two invocations of send / createSignedUrl
\* on one client, each signs, sends and returns what it would alone with the
\* same signing and transport outcomes, and no step writes the client's
\* origin, key or key id.
C21_InvocationsIsolated ==
    /\ [](AsAlone(Frame) /\ AsAlone(parked))
    /\ [][client' = client]_vars

\* both invocations were started before either returned, on different keys,
\* and both have returned ok
C21_Witness ==
    /\ pc = "done" /\ parked.pc = "done"
    /\ op = "send" /\ parked.op = "createSignedUrl"
    /\ command.class = "PutObjectCommand" /\ parked.command.class = "GetObjectCommand"
    /\ command.key # parked.command.key
    /\ result.tag = "ok" /\ parked.result.tag = "ok"
    /\ fetchArgs.url # parked.result.value.signedUrl

\* C22: the policy serialized into x-medoro-policy is the policy value that was
\* given to the constructor of the command, whatever the caller has done with
\* the policy object between construction and signing.
C22_PolicyAsSupplied ==
    (op = "createSignedUrl" /\ primitiveCalls > 0) =>
        SearchParamsGetAll(signArgs.request.url, PolicyParam)
            = <<EncodePolicy(caller.supplied).text>>

\* C23: createSignedUrl assembles, signs and appends in that order: the URL
\* handed to the signing primitive carries x-medoro-policy (store commands) and
\* neither of the two signature parameters, and the URL returned is that URL
\* with x-medoro-signature-input and x-medoro-signature added and nothing else
\* changed.
C23_AssembleSignAppend ==
    (op = "createSignedUrl" /\ primitiveCalls > 0) =>
        LET signed == signArgs.request.url
        IN /\ trace = SubSeq(<<"sign:start", "sign:end">>, 1, Len(trace))
           /\ HasPolicy(command) =>
                 SearchParamsGetAll(signed, PolicyParam)
                     = <<EncodePolicy(command.policy).text>>
           /\ ~HasParam(signed.query, SignatureInputParam)
           /\ ~HasParam(signed.query, SignatureParam)
           /\ (pc = "done" /\ result.tag = "ok") =>
                 result.value.signedUrl =
                     [signed EXCEPT !.query =
                         signed.query
                         \o <<Pair(SignatureInputParam, signResult.signatureInput),
                              Pair(SignatureParam, signResult.signature)>>]

\* the three checks of the classifier, as failures of a response r
ContentTypeCheckFails(r) == ~ContentTypeIsJson(r)
JsonCheckFails(r) == ~ReadJson(r).ok
SchemaCheckFails(r) == ReadJson(r).ok /\ ~ApiResponseSchemaParse(ReadJson(r).v).ok

\* C24: the classifier checks content type, then JSON, then the envelope schema;
\* the first check that fails alone determines the result, and the error kind
\* of each check is produced by no other check.
C24_OrderedDistinctChecks ==
    (op = "send" /\ parseCalls > 0 /\ pc = "done") =>
        LET r == response
            z == ApiResponseSchemaParse(ReadJson(r).v)
        IN /\ ContentTypeCheckFails(r) => result = Err(NotJsonError(r))
           /\ (~ContentTypeCheckFails(r) /\ JsonCheckFails(r)) =>
                 result = Err(JsonParseError(r, ReadJson(r).message))
           /\ (~ContentTypeCheckFails(r) /\ SchemaCheckFails(r)) =>
                 result = Err(SchemaValidationError(z, ReadJson(r).v))
           /\ result.tag = "err" =>
                 /\ result.error.type = NotJsonError(r).type => ContentTypeCheckFails(r)
                 /\ result.error.type = JsonParseError(r, "").type =>
                       (~ContentTypeCheckFails(r) /\ JsonCheckFails(r))

\* C25: the signing primitive is given the client's key id, alg 'ed25519',
\* created = the time of the call in whole seconds, expires = created +
\* expiresInSeconds exactly, and the label 'medoro', at whatever moment the call
\* is made and also when the clock moves on during the call.
C25_SigningParameters ==
    (op \in DataplaneOps /\ primitiveCalls > 0) =>
        /\ signArgs.signatureLabel = "medoro"
        /\ signArgs.additionalParams.keyid = client.keyId
        /\ signArgs.additionalParams.alg = "ed25519"
        /\ signArgs.additionalParams.created = Num(ClockSeconds)
        /\ signArgs.additionalParams.expires
              = Num(ClockSeconds + ExpiresInSeconds(expiresArg))

\* the request of send is the one its command and the signed URL of step 1 give
RequestAsSigned ==
    /\ signResult.tag = "ok"
    /\ fetchArgs.url
          = FinishSignedUrl(signResult, signArgs.request.url, command).value.signedUrl
    /\ fetchArgs.method = command.method
    /\ fetchArgs.headers = command.headers

\* send signs with the default expiry and so never fails the expiry validation
DefaultExpiry ==
    /\ expiresArg = NotGiven
    /\ ~ExpiryOutOfRange(ExpiresInSeconds(expiresArg))
    /\ pc = "done" => result # Err(ValidationError)

\* C26 (amended): the single request of send goes to exactly the signed URL of
\* step 1 (signed with the default expiry of 60 seconds, so send never returns
\* a 'validation' error) with the command's method and headers; its body is the
\* command's content when the command is a store command (no body when the
\* store command was built without content), and there is no body otherwise.
C26_RequestAsSigned ==
    op = "send" =>
        /\ DefaultExpiry
        /\ fetchCalls > 0 =>
              /\ RequestAsSigned
              /\ fetchArgs.body = IF command.class = "PutObjectCommand"
                                  THEN command.content ELSE NoContent

\* a store command built without content has been sent, without a body
C26_Witness ==
    /\ op = "send"
    /\ fetchCalls = 1
    /\ command.class = "PutObjectCommand"
    /\ command.content = NoContent
    /\ fetchArgs.body = NoContent
    /\ SearchParamsGetAll(fetchArgs.url, SignatureParam) = <<signResult.signature>>

\* C26 as stated: the request carries a body exactly when the command is a
\* store command.
C26_Original ==
    op = "send" =>
        /\ DefaultExpiry
        /\ fetchCalls > 0 =>
              /\ RequestAsSigned
              /\ fetchArgs.body # NoContent <=> command.class = "PutObjectCommand"
              /\ command.class = "PutObjectCommand" => fetchArgs.body = command.content

\* a fetch command was answered with a non-success status and a body that the
\* classifier accepts as a success envelope
NonSuccessWithSuccessEnvelope ==
    /\ Fetches
    /\ FetchAnswered
    /\ ~ResponseOk(response)
    /\ op = "send" => ContentTypeIsJson(response)
    /\ IsSuccessEnvelope(ParsedBody(response))

\* C27: a fetch command answered with a non-success status and a body that
\* classifies as a valid success envelope returns the error {type 'api_error',
\* message 'API returned a non-ok response', code = the status as a decimal
\* string, context = the status text}; send and getObject make an 'api_error'
\* of their own in no other situation (every other 'api_error' is the error of
\* a failure envelope).
C27_ApiErrorOfFetch ==
    (op \in {"send", "getObject"} /\ pc = "done") =>
        /\ NonSuccessWithSuccessEnvelope =>
              result = Err([type |-> "api_error",
                            message |-> "API returned a non-ok response",
                            code |-> Str(ToString(response.status)),
                            context |-> Str(response.statusText),
                            details |-> Undefined])
        /\ (result.tag = "err" /\ result.error.type = "api_error"
                /\ ~NonSuccessWithSuccessEnvelope) =>
              /\ FetchAnswered
              /\ IsFailureEnvelope(ParsedBody(response))
              /\ SameError(result.error, ParsedBody(response))

C27_Witness ==
    /\ op = "send"
    /\ command.class = "GetObjectCommand"
    /\ pc = "done"
    /\ response.status = HttpNotFound
    /\ response.body = SuccessBody
    /\ result.tag = "err"
    /\ result.error.code = Str("404")
    /\ result.error.context = Str("Not Found")

\* C28: whatever the key, the URL that is signed and the URL that is fetched
\* have the scheme and the authority of the client's origin.
C28_OriginKept ==
    /\ primitiveCalls > 0 =>
          /\ signArgs.request.url.scheme = client.origin.scheme
          /\ signArgs.request.url.host = client.origin.host
    /\ fetchCalls > 0 =>
          /\ fetchArgs.url.scheme = client.origin.scheme
          /\ fetchArgs.url.host = client.origin.host

\* C29: whatever the key, also a key whose query names reserved parameters, the
\* URL createSignedUrl returns carries x-medoro-policy, x-medoro-signature-input
\* and x-medoro-signature at most once each, x-medoro-policy being the base64 of
\* the command's policy and the signature parameters the primitive's values.
C29_ReservedParametersOnce ==
    (op = "createSignedUrl" /\ pc = "done" /\ result.tag = "ok") =>
        LET u == result.value.signedUrl
        IN /\ Len(SearchParamsGetAll(u, PolicyParam)) <= 1
           /\ HasPolicy(command) =>
                 SearchParamsGetAll(u, PolicyParam) = <<EncodePolicy(command.policy).text>>
           /\ SearchParamsGetAll(u, SignatureInputParam) = <<signResult.signatureInput>>
           /\ SearchParamsGetAll(u, SignatureParam) = <<signResult.signature>>

\* C30: a policy that is signed into the URL of a store command, or sent,
\* satisfies the validation-policy schema.
C30_OnlyValidPoliciesSigned ==
    (op \in DataplaneOps /\ HasPolicy(command) /\ primitiveCalls > 0) =>
        ApiPutRequestValidationPolicySchema(command.policy)

====
